---- MODULE Spec2Model ----
(***************************************************************************)
(* Model of the ProfitCalculator React component of profit-calculator.     *)
(*                                                                         *)
(* The repository holds four editions of the component:                    *)
(*   "base"    src/components/calculator.tsx:96    (tax, fee plans)        *)
(*   "refund"  src/components/calculator.tsx:487   (adds refundPercent)    *)
(*   "units"   src/unnamed/part_001:89             (adds unitsSold)        *)
(*   "bundle"  src/unnamed/part_002:156            (presets, bundle tiers) *)
(* The variable `variant` says which edition is running; it never changes. *)
(*                                                                         *)
(* Numbers.  The code computes in JavaScript doubles; the model computes   *)
(* in exact decimal fixed point:                                           *)
(*   - money inputs (sellingPrice, cogs, adSpend, fixedFeesPerUnit,        *)
(*     monthlyOverhead) are integers counting cents;                       *)
(*   - percent inputs (feesPercent, taxPercent, refundPercent,             *)
(*     otherCostsPercent) are integers counting tenths of a percent;       *)
(*   - feesCents counts cents, as in the code;                             *)
(*   - target margins are integers counting percent (0.10 is 10);          *)
(*   - computed money (profitPerUnit, targetProfit, fixedCosts) is an      *)
(*     integer counting 1/1000 cent (1e-5 dollar), the unit in which       *)
(*     price * percent / 100 is exact;                                     *)
(*   - an unrounded quotient (breakevenRoas of results) is the fraction    *)
(*     [num, den] with den > 0;                                            *)
(*   - a value rounded to two decimals counts hundredths;                  *)
(*   - a bundle tier holds quantity (a count), price and cogsPerUnit       *)
(*     (cents); profitPerOrder counts 1/1000 cent.                         *)
(* Text.  email is the sequence of its characters.                         *)
(* The waitlist form exists in the base and refund editions, the bundle    *)
(* tiers in the bundle edition; elsewhere their variables keep a fixed     *)
(* placeholder.  emailFocused and showSuccessFooter only restyle the page  *)
(* and are left out.                                                       *)
(* A double can differ from the exact value in its last bit (0.1 * 0.1 is  *)
(* 0.010000000000000002); the properties below are about the exact values. *)
(* All products stay below 2^31 on the input grid.                         *)
(***************************************************************************)
EXTENDS Integers, Sequences, FiniteSets, TLC

\* ---------------------------------------------------------------- bounds
\* cogs ranges over 0 .. MaxCogs times $10
MaxCogs == 2
\* adSpend ranges over 0 .. MaxAdSpend times $50
MaxAdSpend == 2
\* Add Offer is followed while the last tier's quantity is below MaxQuantity
MaxQuantity == 3
MaxInFlight == 2

VARIABLES variant, inputs, shopifyPlan, activePreset, results, marginScenarios,
          email, waitlistStatus, inFlight,
          bundleMode, bundleTiers, bundleResults,
          observed,
          apex_waitlist, awaitingSql, response

vars == <<variant, inputs, shopifyPlan, activePreset, results, marginScenarios,
          email, waitlistStatus, inFlight, bundleMode, bundleTiers, bundleResults,
          observed, apex_waitlist, awaitingSql, response>>

\* the waitlist endpoint: the rows of the table, the requests suspended at
\* "await sql", and the response sent last
routeVars == <<apex_waitlist, awaitingSql, response>>

pageVars == <<variant, inputs, shopifyPlan, activePreset, results, marginScenarios,
              email, waitlistStatus, inFlight, bundleMode, bundleTiers, bundleResults,
              observed>>

\* the waitlist form's state; inFlight holds the body of every fetch awaited
waitlistVars == <<email, waitlistStatus, inFlight>>

\* the bundle comparison's state
bundleVars == <<bundleMode, bundleTiers>>

Variants == {"base", "refund", "units", "bundle"}

\* editions with the fee-plan selector and the margin-scenario table
PlanVariants == {"base", "refund", "units"}

\* ------------------------------------------------------------ arithmetic
\* a / b as an exact fraction, b > 0
Ratio(a, b) == [num |-> a, den |-> b]

\* the number 0 as a fraction
Zero == Ratio(0, 1)

\* Math.ceil(a / b), b > 0
MathCeil(a, b) == -((-a) \div b)

MathRound_floor(a, b) == a \div b

\* Math.round(a / b), b > 0: nearest integer, halves towards +infinity
MathRound(a, b) == (2 * a + b) \div (2 * b)

\* a finite number, and the value Infinity
Finite(v) == [finite |-> TRUE, value |-> v]

Infinity == [finite |-> FALSE, value |-> 0]

isFinite(x) == x.finite

\* -------------------------------------------------------------- constants
\* target margins in percent
TARGET_MARGINS == <<0, 10, 20, 30, 40, 50>>

\* percent in tenths of a percent, cents in cents
SHOPIFY_FEES_advancedAsShopify ==
  [basic    |-> [percent |-> 29, cents |-> 30],
   shopify  |-> [percent |-> 26, cents |-> 30],
   advanced |-> [percent |-> 26, cents |-> 30],
   custom   |-> [percent |-> 0,  cents |-> 0]]

SHOPIFY_FEES ==
  [basic    |-> [percent |-> 29, cents |-> 30],
   shopify  |-> [percent |-> 26, cents |-> 30],
   advanced |-> [percent |-> 24, cents |-> 30],
   custom   |-> [percent |-> 0,  cents |-> 0]]

ShopifyPlan == {"basic", "shopify", "advanced", "custom"}

\* ---------------------------------------------------------- unit economics
\* sellingPrice * (percent / 100), in 1/1000 cent
PercentOf(sellingPrice, percent) == sellingPrice * percent

\* the result returned when there is no selling price (base, refund, units)
NoSellingPrice ==
  [hasSellingPrice |-> FALSE, breakevenRoas |-> Zero, breakevenUnits |-> 0,
   profitPerUnit |-> 0, hasAdSpend |-> FALSE]

\* mutant: only a negative price is rejected
invalidPrice_negativeOnly(sellingPrice) == sellingPrice < 0

\* !sellingPrice || sellingPrice <= 0
invalidPrice(sellingPrice) == sellingPrice = 0 \/ sellingPrice <= 0

\* mutant: Math.floor in place of Math.ceil
breakevenUnitsOf_floor(profitPerUnit, fixedCosts) ==
  IF profitPerUnit > 0 /\ fixedCosts > 0
    THEN fixedCosts \div profitPerUnit
    ELSE 0

\* profitPerUnit > 0 && fixedCosts > 0 ? Math.ceil(fixedCosts / profitPerUnit) : 0
breakevenUnitsOf(profitPerUnit, fixedCosts) ==
  IF profitPerUnit > 0 /\ fixedCosts > 0
    THEN MathCeil(fixedCosts, profitPerUnit)
    ELSE 0

\* mutant: the division is not guarded by profitPerUnit > 0
breakevenRoasOf_unguarded(sellingPrice, profitPerUnit) ==
  IF profitPerUnit # 0
    THEN Ratio(1000 * sellingPrice, profitPerUnit)
    ELSE Zero

\* profitPerUnit > 0 ? sellingPrice / profitPerUnit : 0
breakevenRoasOf(sellingPrice, profitPerUnit) ==
  IF profitPerUnit > 0
    THEN Ratio(1000 * sellingPrice, profitPerUnit)
    ELSE Zero

\* mutant: zero ad spend counts as ad spend
hasAdSpendOf_orZero(adSpend) == adSpend >= 0

\* adSpend > 0
hasAdSpendOf(adSpend) == adSpend > 0

\* results of the base edition (and, line for line, of the units edition)
ResultsBase(in) ==
  IF invalidPrice(in.sellingPrice) THEN NoSellingPrice
  ELSE
    LET grossMargin    == 1000 * (in.sellingPrice - in.cogs - in.fixedFeesPerUnit)
        processingFees == PercentOf(in.sellingPrice, in.feesPercent) + 1000 * in.feesCents
        taxCost        == PercentOf(in.sellingPrice, in.taxPercent)
        otherCosts     == PercentOf(in.sellingPrice, in.otherCostsPercent)
        profitPerUnit  == grossMargin - processingFees - taxCost - otherCosts
        fixedCosts     == 1000 * (in.adSpend + in.monthlyOverhead)
    IN [hasSellingPrice |-> TRUE,
        breakevenRoas   |-> breakevenRoasOf(in.sellingPrice, profitPerUnit),
        breakevenUnits  |-> breakevenUnitsOf(profitPerUnit, fixedCosts),
        profitPerUnit   |-> profitPerUnit,
        hasAdSpend      |-> hasAdSpendOf(in.adSpend)]

ResultsRefund_noRefundCost(in) == ResultsBase(in)

\* results of the refund edition
ResultsRefund(in) ==
  IF invalidPrice(in.sellingPrice) THEN NoSellingPrice
  ELSE
    LET grossMargin    == 1000 * (in.sellingPrice - in.cogs - in.fixedFeesPerUnit)
        processingFees == PercentOf(in.sellingPrice, in.feesPercent) + 1000 * in.feesCents
        taxCost        == PercentOf(in.sellingPrice, in.taxPercent)
        refundCost     == PercentOf(in.sellingPrice, in.refundPercent)
        otherCosts     == PercentOf(in.sellingPrice, in.otherCostsPercent)
        profitPerUnit  == grossMargin - processingFees - taxCost - refundCost - otherCosts
        fixedCosts     == 1000 * (in.adSpend + in.monthlyOverhead)
    IN [hasSellingPrice |-> TRUE,
        breakevenRoas   |-> breakevenRoasOf(in.sellingPrice, profitPerUnit),
        breakevenUnits  |-> breakevenUnitsOf(profitPerUnit, fixedCosts),
        profitPerUnit   |-> profitPerUnit,
        hasAdSpend      |-> hasAdSpendOf(in.adSpend)]

\* results of the bundle edition
ResultsBundle(in) ==
  IF in.sellingPrice <= 0 \/ in.cogs >= in.sellingPrice
    THEN [isValid |-> FALSE, breakevenRoas |-> Zero, breakevenUnits |-> 0,
          profitPerUnit |-> 0]
  ELSE
    LET grossMargin   == 1000 * (in.sellingPrice - in.cogs - in.fixedFeesPerUnit)
        variableCosts == PercentOf(in.sellingPrice, in.feesPercent + in.otherCostsPercent)
        profitPerUnit == grossMargin - variableCosts
    IN IF profitPerUnit <= 0
         THEN [isValid |-> FALSE, breakevenRoas |-> Zero, breakevenUnits |-> 0,
               profitPerUnit |-> profitPerUnit]
       ELSE
         LET fixedCosts     == 1000 * (in.adSpend + in.monthlyOverhead)
             breakevenUnits == IF fixedCosts > 0
                                 THEN MathCeil(fixedCosts, profitPerUnit) ELSE 0
             breakevenRoas  == IF in.adSpend > 0 /\ profitPerUnit > 0
                                 THEN Ratio(1000 * in.sellingPrice, profitPerUnit)
                                 ELSE Zero
         IN [isValid |-> TRUE, breakevenRoas |-> breakevenRoas,
             breakevenUnits |-> breakevenUnits, profitPerUnit |-> profitPerUnit]

\* the results memo of the running edition
resultsMemo(v, in) ==
  CASE v = "refund" -> ResultsRefund(in)
    [] v = "bundle" -> ResultsBundle(in)
    [] OTHER        -> ResultsBase(in)

\* ------------------------------------------------------- margin scenarios
\* mutant: a target profit of exactly one cent is accepted
aboveCent_inclusive(targetProfit) == targetProfit >= 1000

\* targetProfit > 0.01
aboveCent(targetProfit) == targetProfit > 1000

\* targetProfit > 0.01 ? sellingPrice / targetProfit : Infinity
scenarioBreakevenRoas(sellingPrice, targetProfit) ==
  IF aboveCent(targetProfit)
    THEN Finite(Ratio(1000 * sellingPrice, targetProfit))
    ELSE Infinity

\* mutant: Math.floor in place of Math.ceil
scenarioBreakevenOrders_floor(adSpend, targetProfit) ==
  IF aboveCent(targetProfit)
    THEN Finite((1000 * adSpend) \div targetProfit)
    ELSE Infinity

\* targetProfit > 0.01 ? Math.ceil(adSpend / targetProfit) : Infinity
scenarioBreakevenOrders(adSpend, targetProfit) ==
  IF aboveCent(targetProfit)
    THEN Finite(MathCeil(1000 * adSpend, targetProfit))
    ELSE Infinity

\* one row of the scenario table; profit in cents, breakevenRoas in hundredths
scenarioPrice_netOfFees(in) == in.sellingPrice - in.feesCents

\* the price the scenarios are built on: const { sellingPrice, ... } = inputs
scenarioPrice(in) == in.sellingPrice

scenarioRow(sellingPrice, adSpend, margin) ==
  LET targetProfit    == sellingPrice * margin * 10
      breakevenRoas   == scenarioBreakevenRoas(sellingPrice, targetProfit)
      breakevenOrders == scenarioBreakevenOrders(adSpend, targetProfit)
  IN [margin          |-> margin,
      price           |-> sellingPrice,
      profit          |-> MathRound(targetProfit, 1000),
      breakevenRoas   |-> IF isFinite(breakevenRoas)
                            THEN Finite(MathRound(100 * breakevenRoas.value.num,
                                                  breakevenRoas.value.den))
                            ELSE Infinity,
      breakevenOrders |-> IF isFinite(breakevenOrders) THEN breakevenOrders ELSE Infinity]

\* mutant: the rows come out in descending margin order
scenariosOver_descending(margins, in) ==
  [i \in 1..Len(margins) |->
     scenarioRow(in.sellingPrice, in.adSpend, margins[Len(margins) + 1 - i])]

\* TARGET_MARGINS.map(...)
scenariosOver(margins, in) ==
  [i \in 1..Len(margins) |-> scenarioRow(scenarioPrice(in), in.adSpend, margins[i])]

marginScenariosMemo_byPlan(v, in) ==
  IF v \in PlanVariants /\ shopifyPlan # "custom"
    THEN scenariosOver(TARGET_MARGINS, in) ELSE <<>>

\* the marginScenarios memo; the bundle edition has no scenario table
marginScenariosMemo(v, in) ==
  IF v \in PlanVariants THEN scenariosOver(TARGET_MARGINS, in) ELSE <<>>

\* ------------------------------------------------------- bundle comparison
tierCogs_perUnit(tier) == tier.cogsPerUnit

\* totalCogs of a tier, in cents
tierCogs(tier) == tier.cogsPerUnit * tier.quantity

tierRoasOf_unguarded(price, profitPerOrder) == Ratio(1000 * price, profitPerOrder)

\* breakevenRoas of a tier: profitPerOrder > 0 ? price / profitPerOrder : 0
tierRoasOf(price, profitPerOrder) ==
  IF profitPerOrder > 0 THEN Ratio(1000 * price, profitPerOrder) ELSE Zero

\* one entry of bundleResults: the tier's economics under the current inputs
bundleRow(tier, in) ==
  LET totalCogs == tierCogs(tier)
      fees == PercentOf(tier.price, in.feesPercent)
      otherCosts == PercentOf(tier.price, in.otherCostsPercent)
      profitPerOrder == 1000 * tier.price - 1000 * totalCogs - fees - otherCosts
  IN [quantity |-> tier.quantity, price |-> tier.price, totalCogs |-> totalCogs,
      profitPerOrder |-> profitPerOrder,
      breakevenRoas |-> tierRoasOf(tier.price, profitPerOrder),
      breakevenOrders |-> IF profitPerOrder > 0
                            THEN MathCeil(1000 * in.adSpend, profitPerOrder) ELSE 0]

bundleResultsMemo_firstCogs(mode, tiers, in) ==
  IF ~mode THEN <<>>
  ELSE [i \in 1..Len(tiers) |->
          bundleRow([tiers[i] EXCEPT !.cogsPerUnit = tiers[1].cogsPerUnit], in)]

\* the bundleResults memo: empty while bundle mode is off
bundleResultsMemo(mode, tiers, in) ==
  IF ~mode THEN <<>> ELSE [i \in 1..Len(tiers) |-> bundleRow(tiers[i], in)]

\* ---------------------------------------------------------------- waitlist
\* the characters \s matches
Whitespace == {" "}

\* [^\s@]
plainChar(c) == c \notin Whitespace /\ c # "@"

EMAIL_REGEX_noDot(e) ==
  \E a \in 1..Len(e) :
    /\ e[a] = "@"
    /\ 1 < a /\ a < Len(e)
    /\ \A i \in 1..Len(e) : i # a => plainChar(e[i])

\* EMAIL_REGEX.test(e) for /^[^\s@]+@[^\s@]+\.[^\s@]+$/
EMAIL_REGEX(e) ==
  \E a \in 1..Len(e) : \E d \in 1..Len(e) :
    /\ e[a] = "@"
    /\ e[d] = "."
    /\ 1 < a /\ a + 1 < d /\ d < Len(e)
    /\ \A i \in 1..Len(e) : i # a => plainChar(e[i])

\* editions that render the waitlist form
WaitlistVariants == {"base", "refund"}

\* ------------------------------------------------------------------ state
InitialInputs(v) ==
  CASE v = "base" ->
         [sellingPrice |-> 5000, cogs |-> 1000, taxPercent |-> 0, adSpend |-> 0,
          feesPercent |-> 29, feesCents |-> 30, otherCostsPercent |-> 0,
          fixedFeesPerUnit |-> 0, monthlyOverhead |-> 0]
    [] v = "refund" ->
         [sellingPrice |-> 5000, cogs |-> 1000, taxPercent |-> 0, refundPercent |-> 0,
          adSpend |-> 0, feesPercent |-> 29, feesCents |-> 30, otherCostsPercent |-> 0,
          fixedFeesPerUnit |-> 0, monthlyOverhead |-> 0]
    [] v = "units" ->
         [sellingPrice |-> 5000, cogs |-> 1000, taxPercent |-> 0, adSpend |-> 0,
          feesPercent |-> 29, feesCents |-> 30, otherCostsPercent |-> 0,
          fixedFeesPerUnit |-> 0, monthlyOverhead |-> 0, unitsSold |-> 0]
    [] v = "bundle" ->
         [sellingPrice |-> 4999, cogs |-> 1800, adSpend |-> 5000, feesPercent |-> 30,
          otherCostsPercent |-> 0, fixedFeesPerUnit |-> 0, monthlyOverhead |-> 0,
          unitsSold |-> 0]

InitialTiers(v) ==
  IF v = "bundle"
    THEN <<[quantity |-> 1, price |-> 4000, cogsPerUnit |-> 1800],
           [quantity |-> 2, price |-> 7000, cogsPerUnit |-> 1800]>>
    ELSE <<>>

\* activePreset is a set: {} is null, {i} is the preset index i (from 0)
Init ==
  /\ variant \in Variants
  /\ inputs = InitialInputs(variant)
  /\ shopifyPlan = IF variant \in PlanVariants THEN "basic" ELSE "absent"
  /\ activePreset = IF variant = "bundle" THEN {1} ELSE {}
  /\ results = resultsMemo(variant, inputs)
  /\ marginScenarios = marginScenariosMemo(variant, inputs)
  /\ email = <<>>
  /\ waitlistStatus = IF variant \in WaitlistVariants THEN "idle" ELSE "absent"
  /\ inFlight = <<>>
  /\ bundleMode = FALSE
  /\ bundleTiers = InitialTiers(variant)
  /\ bundleResults = bundleResultsMemo(bundleMode, bundleTiers, inputs)
  /\ observed = <<>>
  /\ apex_waitlist = {}
  /\ awaitingSql = <<>>
  /\ response = [status |-> 0, email |-> <<>>]

Render_stale ==
  /\ results' = resultsMemo(variant, inputs)
  /\ marginScenarios' = marginScenariosMemo(variant, inputs)
  /\ bundleResults' = bundleResultsMemo(bundleMode, bundleTiers, inputs)

\* the re-render that follows every state change: the memos are recomputed
\* from the new state
Render ==
  /\ results' = resultsMemo(variant, inputs')
  /\ marginScenarios' = marginScenariosMemo(variant, inputs')
  /\ bundleResults' = bundleResultsMemo(bundleMode', bundleTiers', inputs')

updateInput_percentOnly(key, value) ==
  /\ variant \in PlanVariants
  /\ key \in DOMAIN inputs
  /\ inputs' = [inputs EXCEPT ![key] = value]
  /\ shopifyPlan' = IF key = "feesPercent" THEN "custom" ELSE shopifyPlan
  /\ UNCHANGED <<routeVars, variant, activePreset, waitlistVars, bundleVars, observed>>
  /\ Render

\* updateInput of the base, refund and units editions
updateInput(key, value) ==
  /\ variant \in PlanVariants
  /\ key \in DOMAIN inputs
  /\ inputs' = [inputs EXCEPT ![key] = value]
  /\ shopifyPlan' = IF key = "feesPercent" \/ key = "feesCents"
                      THEN "custom" ELSE shopifyPlan
  /\ UNCHANGED <<routeVars, variant, activePreset, waitlistVars, bundleVars, observed>>
  /\ Render

\* updateInput of the bundle edition
updateInputBundle(key, value) ==
  /\ variant = "bundle"
  /\ key \in DOMAIN inputs
  /\ inputs' = [inputs EXCEPT ![key] = value]
  /\ activePreset' = {}
  /\ UNCHANGED <<routeVars, variant, shopifyPlan, waitlistVars, bundleVars, observed>>
  /\ Render

planInputs_tableAlways(plan, prev) ==
  [prev EXCEPT !.feesPercent = SHOPIFY_FEES[plan].percent,
               !.feesCents = SHOPIFY_FEES[plan].cents]

\* the inputs handlePlanChange(plan) leaves: the tier's fees written over prev
\* if (plan !== "custom"), prev itself otherwise
planInputs(plan, prev) ==
  IF plan # "custom"
    THEN [prev EXCEPT !.feesPercent = SHOPIFY_FEES[plan].percent,
                      !.feesCents = SHOPIFY_FEES[plan].cents]
    ELSE prev

handlePlanChange_percentOnly(plan) ==
  /\ variant \in PlanVariants
  /\ shopifyPlan' = plan
  /\ inputs' = IF plan # "custom"
                 THEN [inputs EXCEPT !.feesPercent = SHOPIFY_FEES[plan].percent]
                 ELSE inputs
  /\ UNCHANGED <<routeVars, variant, activePreset, waitlistVars, bundleVars, observed>>
  /\ Render

handlePlanChange(plan) ==
  /\ variant \in PlanVariants
  /\ shopifyPlan' = plan
  /\ inputs' = planInputs(plan, inputs)
  /\ UNCHANGED <<routeVars, variant, activePreset, waitlistVars, bundleVars, observed>>
  /\ Render

\* PRESETS[index].values, index from 0
PRESETS ==
  0 :> [sellingPrice |-> 3999, cogs |-> 1500, feesPercent |-> 30, otherCostsPercent |-> 50] @@
  1 :> [sellingPrice |-> 4999, cogs |-> 1800, feesPercent |-> 30, otherCostsPercent |-> 50] @@
  2 :> [sellingPrice |-> 5999, cogs |-> 1500, feesPercent |-> 29, otherCostsPercent |-> 40] @@
  3 :> [sellingPrice |-> 8999, cogs |-> 2000, feesPercent |-> 25, otherCostsPercent |-> 30]

\* applyPreset(PRESETS[index], index): { ...prev, ...preset.values }
applyPreset(index) ==
  /\ variant = "bundle"
  /\ inputs' = [k \in DOMAIN inputs |->
                  IF k \in DOMAIN PRESETS[index] THEN PRESETS[index][k] ELSE inputs[k]]
  /\ activePreset' = {index}
  /\ UNCHANGED <<routeVars, variant, shopifyPlan, waitlistVars, bundleVars, observed>>
  /\ Render

\* ------------------------------------------------------------ bundle tiers
\* setBundleMode(!bundleMode)
toggleBundleMode ==
  /\ variant = "bundle"
  /\ bundleMode' = ~bundleMode
  /\ UNCHANGED <<routeVars, variant, inputs, shopifyPlan, activePreset, bundleTiers,
                 waitlistVars, observed>>
  /\ Render

\* updateBundleTier(index, field, value); tiers are numbered from 1 here
updateBundleTier(index, field, value) ==
  /\ variant = "bundle"
  /\ index \in 1..Len(bundleTiers)
  /\ bundleTiers' = [bundleTiers EXCEPT ![index] = [@ EXCEPT ![field] = value]]
  /\ UNCHANGED <<routeVars, variant, inputs, shopifyPlan, activePreset, bundleMode,
                 waitlistVars, observed>>
  /\ Render

\* the tier Add Offer appends: one more unit at 1.4 times the price, rounded
\* to whole dollars
tierAfter(lastTier) ==
  [quantity |-> lastTier.quantity + 1,
   price |-> 100 * MathRound(14 * lastTier.price, 1000),
   cogsPerUnit |-> lastTier.cogsPerUnit]

\* one call of addBundleTier made from a render that showed the tiers closure,
\* applied to the queued state prev: the guard and lastTier read closure, the
\* updater appends to prev
addTierCall(closure, prev) ==
  IF Len(closure) < 4 THEN Append(prev, tierAfter(closure[Len(closure)])) ELSE prev

addBundleTier ==
  /\ variant = "bundle"
  /\ bundleTiers' = addTierCall(bundleTiers, bundleTiers)
  /\ UNCHANGED <<routeVars, variant, inputs, shopifyPlan, activePreset, bundleMode,
                 waitlistVars, observed>>
  /\ Render

\* prev.filter((_, i) => i !== index)
filterOut(tiers, index) ==
  IF index \in 1..Len(tiers)
    THEN [i \in 1..(Len(tiers) - 1) |-> IF i < index THEN tiers[i] ELSE tiers[i + 1]]
    ELSE tiers

\* one call of removeBundleTier(index) made from a render that showed closure,
\* applied to the queued state prev: the guard reads closure's length
removeTierCall(closure, prev, index) ==
  IF Len(closure) > 1 THEN filterOut(prev, index) ELSE prev

removeBundleTier(index) ==
  /\ variant = "bundle"
  /\ index \in 1..Len(bundleTiers)
  /\ bundleTiers' = removeTierCall(bundleTiers, bundleTiers, index)
  /\ UNCHANGED <<routeVars, variant, inputs, shopifyPlan, activePreset, bundleMode,
                 waitlistVars, observed>>
  /\ Render

\* two calls of addBundleTier made from the same render: both read that
\* render's bundleTiers, the updaters run one after the other, then the
\* component re-renders
addBundleTierTwice ==
  /\ variant = "bundle"
  /\ bundleTiers' = addTierCall(bundleTiers, addTierCall(bundleTiers, bundleTiers))
  /\ UNCHANGED <<routeVars, variant, inputs, shopifyPlan, activePreset, bundleMode,
                 waitlistVars, observed>>
  /\ Render

\* two calls of removeBundleTier made from the same render
removeBundleTierTwice(index1, index2) ==
  /\ variant = "bundle"
  /\ index1 \in 1..Len(bundleTiers)
  /\ index2 \in 1..Len(bundleTiers)
  /\ bundleTiers' = removeTierCall(bundleTiers,
                                   removeTierCall(bundleTiers, bundleTiers, index1),
                                   index2)
  /\ UNCHANGED <<routeVars, variant, inputs, shopifyPlan, activePreset, bundleMode,
                 waitlistVars, observed>>
  /\ Render

\* ---------------------------------------------------------- waitlist form
isValidEmail == EMAIL_REGEX(email)

\* onChange of the email field
setEmail(value) ==
  /\ variant \in WaitlistVariants
  /\ email' = value
  /\ UNCHANGED <<routeVars, variant, inputs, shopifyPlan, activePreset, waitlistStatus,
                 inFlight, bundleVars, observed>>
  /\ Render

handleWaitlist_resetsForm ==
  /\ variant \in WaitlistVariants
  /\ IF ~isValidEmail
       THEN UNCHANGED <<waitlistStatus, inFlight, inputs, shopifyPlan>>
       ELSE /\ waitlistStatus' = "loading"
            /\ inFlight' = Append(inFlight, email)
            /\ inputs' = InitialInputs(variant)
            /\ shopifyPlan' = "basic"
  /\ UNCHANGED <<routeVars, variant, activePreset, email, bundleVars, observed>>
  /\ Render

\* handleWaitlist up to its await: the fetch is sent with the current email
handleWaitlist ==
  /\ variant \in WaitlistVariants
  /\ IF ~isValidEmail
       THEN UNCHANGED <<waitlistStatus, inFlight>>
       ELSE /\ waitlistStatus' = "loading"
            /\ inFlight' = Append(inFlight, email)
  /\ UNCHANGED <<routeVars, variant, inputs, shopifyPlan, activePreset, email,
                 bundleVars, observed>>
  /\ Render

\* the ways the awaited fetch ends: res.ok, !res.ok, or a rejected promise
FetchOutcomes == {"ok", "notOk", "thrown"}

statusAfter_noCatch(outcome) ==
  CASE outcome = "ok"     -> "success"
    [] outcome = "notOk"  -> "error"
    [] outcome = "thrown" -> "loading"

\* the status set after the await: by the if, its else, or the catch
statusAfter(outcome) == IF outcome = "ok" THEN "success" ELSE "error"

handleWaitlistResumes_clearsAlways(index, outcome) ==
  /\ variant \in WaitlistVariants
  /\ index \in 1..Len(inFlight)
  /\ inFlight' = filterOut(inFlight, index)
  /\ waitlistStatus' = statusAfter(outcome)
  /\ email' = <<>>
  /\ UNCHANGED <<routeVars, variant, inputs, shopifyPlan, activePreset, bundleVars, observed>>
  /\ Render

\* handleWaitlist from its await to its end, for the fetch numbered index
handleWaitlistResumes(index, outcome) ==
  /\ variant \in WaitlistVariants
  /\ index \in 1..Len(inFlight)
  /\ inFlight' = filterOut(inFlight, index)
  /\ waitlistStatus' = statusAfter(outcome)
  /\ email' = IF outcome = "ok" THEN <<>> ELSE email
  /\ UNCHANGED <<routeVars, variant, inputs, shopifyPlan, activePreset, bundleVars, observed>>
  /\ Render

\* ------------------------------------------------------- waitlist endpoint
\* String.prototype.includes("@")
includesAt(e) == \E i \in 1..Len(e) : e[i] = "@"

\* a failure thrown before the guard: request.json() rejects, or .includes is
\* not a function of a non-zero number
throwsEarly(body) == body.kind \in {"unparseable", "number"}

invalidBody_emptyOnly(body) ==
  \/ body.kind = "noEmail"
  \/ body.kind = "text" /\ body.email = <<>>

\* !email || !email.includes("@")
invalidBody(body) ==
  \/ body.kind = "noEmail"
  \/ body.kind = "text" /\ (body.email = <<>> \/ ~includesAt(body.email))

\* NextResponse.json(..., { status }) for the request that carried email
Respond(status, e) == response' = [status |-> status, email |-> e]

\* POST up to its await, or to its return when it answers before
POST(body) ==
  /\ IF throwsEarly(body)
       THEN Respond(500, <<>>) /\ UNCHANGED <<apex_waitlist, awaitingSql>>
       ELSE IF invalidBody(body)
         THEN Respond(400, body.email) /\ UNCHANGED <<apex_waitlist, awaitingSql>>
         ELSE /\ awaitingSql' = Append(awaitingSql, body.email)
              /\ UNCHANGED <<apex_waitlist, response>>
  /\ UNCHANGED pageVars

\* the ways the awaited statement ends: completed, failed with no row written,
\* or written but the answer of the database lost
SqlOutcomes == {"done", "failed", "lost"}

\* INSERT ... ON CONFLICT (email) DO NOTHING
insertRow(table, e) == table \cup {e}

\* the status answered after the await: success, or the catch's 500
statusOf(outcome) == IF outcome = "done" THEN 200 ELSE 500

\* POST from its await to its return, for the suspended request numbered index
POSTResumes(index, outcome) ==
  /\ index \in 1..Len(awaitingSql)
  /\ awaitingSql' = filterOut(awaitingSql, index)
  /\ apex_waitlist' = IF outcome = "failed" THEN apex_waitlist
                                           ELSE insertRow(apex_waitlist, awaitingSql[index])
  /\ Respond(statusOf(outcome), awaitingSql[index])
  /\ UNCHANGED pageVars

\* ----------------------------------------------------------------- inputs
\* the numbers typed into a field: parseFloat(e.target.value) || 0
InputValues(key) ==
  CASE key = "sellingPrice"      -> {-100, 0, 2, 3, 1000, 5000}
    [] key = "cogs"              -> {1000 * k : k \in 0..MaxCogs}
    [] key = "adSpend"           -> {5000 * k : k \in 0..MaxAdSpend}
    [] key = "taxPercent"        -> {0, 100}
    [] key = "refundPercent"     -> {0, 50}
    [] key = "feesPercent"       -> {0, 29}
    [] key = "feesCents"         -> {0, 30}
    [] key = "otherCostsPercent" -> {0, 50}
    [] key = "fixedFeesPerUnit"  -> {0, 1000}
    [] key = "monthlyOverhead"   -> {-5000, 0, 2000}
    [] key = "unitsSold"         -> {0, 10}

\* the fields each edition's form wires to updateInput
WiredKeys(v) ==
  CASE v = "base"   -> {"sellingPrice", "cogs", "taxPercent", "adSpend",
                        "feesPercent", "feesCents"}
    [] v = "units"  -> {"sellingPrice", "cogs", "taxPercent", "adSpend",
                        "feesPercent", "feesCents"}
    [] v = "refund" -> {"sellingPrice", "cogs", "adSpend", "feesPercent", "feesCents",
                        "taxPercent", "refundPercent"}
    [] v = "bundle" -> {"sellingPrice", "cogs", "adSpend", "feesPercent",
                        "otherCostsPercent", "monthlyOverhead"}

\* ---------------------------------------------------------- specifications
\* the component as the user drives it
EditField ==
  \E key \in WiredKeys(variant) : \E value \in InputValues(key) : updateInput(key, value)

EditFieldBundle ==
  \E key \in WiredKeys(variant) : \E value \in InputValues(key) : updateInputBundle(key, value)

ChangePlan == \E plan \in ShopifyPlan : handlePlanChange(plan)

ChoosePreset == \E index \in DOMAIN PRESETS : applyPreset(index)

Next == EditField \/ EditFieldBundle \/ ChangePlan \/ ChoosePreset

Spec == Init /\ [][Next]_vars

\* the engine alone: updateInput called with any key of CalcInputs, so that
\* results and marginScenarios are computed for every configuration
SetField ==
  \E key \in DOMAIN inputs : \E value \in InputValues(key) : updateInput(key, value)

SetFieldBundle ==
  \E key \in DOMAIN inputs : \E value \in InputValues(key) : updateInputBundle(key, value)

NextEngine == SetField \/ SetFieldBundle

SpecEngine == Init /\ [][NextEngine]_vars

\* the whole page: calculator form, bundle comparison and waitlist form.
\* The numbers typed into a field here
SampleValues(key) ==
  CASE key = "sellingPrice"      -> {0, 2, 1000}
    [] key = "cogs"              -> {2000}
    [] key = "adSpend"           -> {0, 5000}
    [] key = "taxPercent"        -> {100}
    [] key = "refundPercent"     -> {50}
    [] key = "feesPercent"       -> {0}
    [] key = "feesCents"         -> {0}
    [] key = "otherCostsPercent" -> {50}
    [] key = "monthlyOverhead"   -> {2000}

\* the numbers typed into a tier's field: parseInt(..) || 0, parseFloat(..) || 0;
\* quantity and price stay as the initial tiers and Add Offer set them
TierValues(field) ==
  CASE field = "cogsPerUnit" -> {4000}
    [] OTHER                 -> {}

TierFields == {"quantity", "price", "cogsPerUnit"}

\* the texts typed into the email field: empty, a valid and an invalid address
Emails == {<<>>, <<"a", "@", "b", ".", "c">>, <<"a", "@", "b">>}

TouchField ==
  \E key \in WiredKeys(variant) : \E value \in SampleValues(key) : updateInput(key, value)

TouchFieldBundle ==
  \E key \in WiredKeys(variant) : \E value \in SampleValues(key) :
    updateInputBundle(key, value)

ToggleBundle == toggleBundleMode

\* the tier editors are rendered in bundle mode only
EditTier ==
  /\ bundleMode
  /\ \E index \in 1..Len(bundleTiers) : \E field \in TierFields :
       \E value \in TierValues(field) : updateBundleTier(index, field, value)

\* the Add Offer button is rendered in bundle mode below four tiers
AddOffer ==
  /\ bundleMode
  /\ Len(bundleTiers) < 4
  /\ Len(bundleTiers) > 0
  /\ bundleTiers[Len(bundleTiers)].quantity < MaxQuantity
  /\ addBundleTier

\* the remove button is rendered in bundle mode above one tier
RemoveOffer ==
  /\ bundleMode
  /\ Len(bundleTiers) > 1
  /\ \E index \in 1..Len(bundleTiers) : removeBundleTier(index)

\* the refund edition replaces its forms by a message on success; the base
\* edition replaces only the button
TypeEmail ==
  /\ variant = "base" \/ waitlistStatus # "success"
  /\ \E value \in Emails : setEmail(value)

ClickJoin_whileLoading ==
  /\ waitlistStatus # "success"
  /\ isValidEmail
  /\ handleWaitlist

\* the button is rendered unless success, disabled while loading or invalid
ClickJoin ==
  /\ waitlistStatus # "success"
  /\ ~(waitlistStatus = "loading" \/ ~isValidEmail)
  /\ handleWaitlist

FetchSettles ==
  \E index \in 1..Len(inFlight) : \E outcome \in FetchOutcomes :
    handleWaitlistResumes(index, outcome)

NextApp ==
  \/ TouchField \/ TouchFieldBundle \/ ChangePlan \/ ChoosePreset
  \/ ToggleBundle \/ EditTier \/ AddOffer \/ RemoveOffer
  \/ TypeEmail \/ ClickJoin \/ FetchSettles

SpecApp == Init /\ [][NextApp]_vars

\* the waitlist form alone, with every kind of text typed into the field and
\* handleWaitlist entered from a rendered button whatever its disabled
\* attribute says, so that the handler's own guard is what decides
TypedEmails ==
  Emails \cup {<<"a", ".", "b">>, <<"a", ".", "b", "@", "c">>,
               <<"a", " ", "@", "b", ".", "c">>, <<"a", "@", "b", ".", " ">>,
               <<"@", "b", ".", "c">>, <<"a", "@", ".", "c">>, <<"a", "@", "b", ".">>,
               <<"a", "@", "b", "@", "c", ".", "d">>, <<"a", "@", "b", ".", "c", ".", "d">>}

TypeAnyEmail ==
  /\ variant = "base" \/ waitlistStatus # "success"
  /\ \E value \in TypedEmails : setEmail(value)

CallHandleWaitlist ==
  /\ waitlistStatus # "success"
  /\ Len(inFlight) < MaxInFlight
  /\ handleWaitlist

NextWaitlist == TypeAnyEmail \/ CallHandleWaitlist \/ FetchSettles

SpecWaitlist == Init /\ [][NextWaitlist]_vars

\* fetch returns a promise that is settled once the network answers or fails;
\* the continuation of handleWaitlist is then run by the microtask queue
SpecWaitlistFair == SpecWaitlist /\ WF_vars(FetchSettles)

\* the endpoint under requests of every kind, up to MaxInFlight of them
\* suspended at the insert. What request.json() makes of a body: it throws, or
\* gives an object whose email is absent, a string, or a number
Bodies ==
  {[kind |-> "unparseable", email |-> <<>>], [kind |-> "noEmail", email |-> <<>>],
   [kind |-> "number", email |-> <<>>]}
  \cup {[kind |-> "text", email |-> e] :
          e \in {<<>>, <<"a", "b">>, <<"@">>, <<"a", "@", "b">>, <<"a", "@", "b", ".", "c">>}}

Request ==
  /\ Len(awaitingSql) < MaxInFlight
  /\ \E body \in Bodies : POST(body)

SqlSettles ==
  \E index \in 1..Len(awaitingSql) : \E outcome \in SqlOutcomes :
    POSTResumes(index, outcome)

NextRoute == Request \/ SqlSettles

SpecRoute == Init /\ [][NextRoute]_vars

\* the bundle comparison with handlers that can run twice from one render.
\* With no tier left lastTier is undefined and Add Offer adds nothing
AddOfferTwice ==
  /\ bundleMode
  /\ Len(bundleTiers) < 4
  /\ Len(bundleTiers) > 0
  /\ bundleTiers[Len(bundleTiers)].quantity < MaxQuantity
  /\ addBundleTierTwice

RemoveOfferTwice ==
  /\ bundleMode
  /\ Len(bundleTiers) > 1
  /\ \E index1 \in 1..Len(bundleTiers) : \E index2 \in 1..Len(bundleTiers) :
       removeBundleTierTwice(index1, index2)

NextBatched ==
  \/ ToggleBundle \/ EditTier \/ AddOffer \/ RemoveOffer
  \/ AddOfferTwice \/ RemoveOfferTwice \/ ChoosePreset

SpecBatched == Init /\ [][NextBatched]_vars

\* two evaluations compared: observed keeps the configuration and the memos of
\* one earlier render, the page then goes on through edits of the ad spend,
\* plan changes, presets and waitlist events
Observe ==
  /\ observed = <<>>
  /\ observed' = <<[inputs |-> inputs, results |-> results,
                    marginScenarios |-> marginScenarios]>>
  /\ UNCHANGED <<routeVars, variant, inputs, shopifyPlan, activePreset, results,
                 marginScenarios, waitlistVars, bundleVars, bundleResults>>

EditAdSpend ==
  \E value \in InputValues("adSpend") :
    updateInput("adSpend", value) \/ updateInputBundle("adSpend", value)

NextObserved ==
  \/ Observe \/ EditAdSpend \/ ChangePlan \/ ChoosePreset
  \/ TypeEmail \/ ClickJoin \/ FetchSettles

SpecObserved == Init /\ [][NextObserved]_vars

\* ------------------------------------------------------------------ claims
\* the validity flag of a result: hasSellingPrice, or isValid in the bundle edition
validityFlag(r) == IF variant = "bundle" THEN r.isValid ELSE r.hasSellingPrice

\* a field of a configuration, 0 when the edition has no such field
Field(in, k) == IF k \in DOMAIN in THEN in[k] ELSE 0

\* profitPerUnit as the specification states it, in 1/1000 cent
statedProfitPerUnit(in) ==
  1000 * in.sellingPrice - 1000 * in.cogs - 1000 * in.fixedFeesPerUnit
    - (in.sellingPrice * in.feesPercent + 1000 * Field(in, "feesCents"))
    - in.sellingPrice * Field(in, "taxPercent")
    - in.sellingPrice * Field(in, "refundPercent")
    - in.sellingPrice * in.otherCostsPercent

\* adSpend + monthlyOverhead, in 1/1000 cent
statedFixedCosts(in) == 1000 * (in.adSpend + in.monthlyOverhead)

\* n is the least integer with n * unit >= total, for unit > 0
LeastCover(n, unit, total) == n * unit >= total /\ (n - 1) * unit < total

\* C1: whenever sellingPrice <= 0 the result is the invalid sentinel: the validity
\* flag is false and profitPerUnit, breakevenRoas and breakevenUnits are all 0
C1_InvalidSentinel ==
  inputs.sellingPrice <= 0 =>
    /\ ~validityFlag(results)
    /\ results.profitPerUnit = 0
    /\ results.breakevenRoas = Zero
    /\ results.breakevenUnits = 0

\* a non-positive price with costs, ad spend and overhead set, reported as the sentinel
C1_Witness ==
  /\ inputs.sellingPrice <= 0
  /\ inputs.cogs > 0
  /\ inputs.adSpend > 0
  /\ inputs.monthlyOverhead > 0
  /\ ~validityFlag(results)
  /\ results.profitPerUnit = 0

\* C2: whenever sellingPrice > 0 the reported profitPerUnit is sellingPrice - cogs
\* - fixedFeesPerUnit - processing fees - tax - refunds - other costs
C2_ProfitFormula ==
  inputs.sellingPrice > 0 => results.profitPerUnit = statedProfitPerUnit(inputs)

\* C3: whenever sellingPrice > 0, breakevenRoas is sellingPrice / profitPerUnit if
\* profitPerUnit > 0 and 0 otherwise, whatever adSpend is
C3_RoasRule ==
  inputs.sellingPrice > 0 =>
    IF results.profitPerUnit > 0
      THEN results.breakevenRoas = Ratio(1000 * inputs.sellingPrice, results.profitPerUnit)
      ELSE results.breakevenRoas = Zero

\* C4: whenever sellingPrice > 0, breakevenUnits is the least integer n with
\* n * profitPerUnit >= adSpend + monthlyOverhead if profitPerUnit > 0 and
\* adSpend + monthlyOverhead > 0, and 0 otherwise
C4_BreakevenUnits ==
  inputs.sellingPrice > 0 =>
    IF results.profitPerUnit > 0 /\ statedFixedCosts(inputs) > 0
      THEN LeastCover(results.breakevenUnits, results.profitPerUnit, statedFixedCosts(inputs))
      ELSE results.breakevenUnits = 0

\* profitPerUnit 38.25 and adSpend 100 give 3 units
C4_Witness ==
  /\ inputs.sellingPrice = 5000
  /\ results.profitPerUnit = 3825000
  /\ inputs.adSpend = 10000
  /\ inputs.monthlyOverhead = 0
  /\ results.breakevenUnits = 3

\* C5: whenever sellingPrice > 0 and profitPerUnit (as reported, or as the cost
\* formula gives it) is <= 0, breakevenRoas and breakevenUnits are both 0
C5_NoProfitNoBreakeven ==
  (inputs.sellingPrice > 0
     /\ (results.profitPerUnit <= 0 \/ statedProfitPerUnit(inputs) <= 0)) =>
    /\ results.breakevenRoas = Zero
    /\ results.breakevenUnits = 0

\* a loss per unit, with ad spend and overhead to cover
C5_Witness ==
  /\ inputs.sellingPrice > 0
  /\ results.profitPerUnit < 0
  /\ inputs.adSpend > 0
  /\ inputs.monthlyOverhead > 0
  /\ results.breakevenRoas = Zero
  /\ results.breakevenUnits = 0

\* C6: an edit that raises cogs and nothing else, at a sellingPrice > 0, strictly
\* lowers the reported profitPerUnit
C6_CogsMonotone ==
  [][(/\ inputs.sellingPrice > 0
      /\ inputs'.cogs > inputs.cogs
      /\ inputs' = [inputs EXCEPT !.cogs = inputs'.cogs])
       => results'.profitPerUnit < results.profitPerUnit]_vars

C8_SixRowsInOrder ==
  variant \in PlanVariants =>
    /\ Len(marginScenarios) = 6
    /\ marginScenarios[1].margin = 0
    /\ marginScenarios[2].margin = 10
    /\ marginScenarios[3].margin = 20
    /\ marginScenarios[4].margin = 30
    /\ marginScenarios[5].margin = 40
    /\ marginScenarios[6].margin = 50

\* a non-positive price, where the rows do not differ in any other field
C8_Witness ==
  /\ variant \in PlanVariants
  /\ inputs.sellingPrice <= 0
  /\ inputs.adSpend > 0
  /\ Len(marginScenarios) = 6
  /\ marginScenarios[6].margin = 50

\* C9: in every row, with targetProfit = sellingPrice * margin, breakevenRoas is
\* sellingPrice / targetProfit rounded to 2 decimals if targetProfit > 0.01 and
\* +infinity if targetProfit <= 0.01; the margin 0 row is always +infinity
C9_ScenarioRoas ==
  variant \in PlanVariants =>
    /\ marginScenarios[1].breakevenRoas = Infinity
    /\ \A i \in 1..Len(marginScenarios) :
         LET row          == marginScenarios[i]
             targetProfit == inputs.sellingPrice * row.margin * 10
             hundredths   == row.breakevenRoas.value
         IN IF targetProfit > 1000
              THEN /\ row.breakevenRoas.finite
                   /\ (2 * hundredths - 1) * targetProfit <= 200000 * inputs.sellingPrice
                   /\ 200000 * inputs.sellingPrice < (2 * hundredths + 1) * targetProfit
              ELSE row.breakevenRoas = Infinity

\* sellingPrice 0.02 at margin 0.50: a targetProfit of exactly 0.01 is +infinity
C9_Witness ==
  /\ variant \in PlanVariants
  /\ inputs.sellingPrice = 2
  /\ marginScenarios[6].margin = 50
  /\ marginScenarios[6].breakevenRoas = Infinity

\* C10: in every row, with targetProfit = sellingPrice * margin, breakevenOrders
\* is the least integer n with n * targetProfit >= adSpend if targetProfit > 0.01
\* (0 when adSpend = 0) and +infinity if targetProfit <= 0.01
C10_ScenarioOrders ==
  variant \in PlanVariants =>
    \A i \in 1..Len(marginScenarios) :
      LET row          == marginScenarios[i]
          targetProfit == inputs.sellingPrice * row.margin * 10
      IN IF targetProfit > 1000
           THEN /\ row.breakevenOrders.finite
                /\ LeastCover(row.breakevenOrders.value, targetProfit, 1000 * inputs.adSpend)
                /\ (inputs.adSpend = 0 => row.breakevenOrders.value = 0)
           ELSE row.breakevenOrders = Infinity

\* sellingPrice 50, adSpend 50: 5 orders at margin 0.20, and a row that rounds up
C10_Witness ==
  /\ variant \in PlanVariants
  /\ inputs.sellingPrice = 5000
  /\ inputs.adSpend = 5000
  /\ marginScenarios[3].breakevenOrders = Finite(5)
  /\ marginScenarios[4].breakevenOrders = Finite(4)

\* C11: every scenario row echoes the selling price unchanged as its price and
\* carries as profit the hundredth nearest to sellingPrice * margin (halves up);
\* the primary result carries profitPerUnit and breakevenRoas exactly, with no
\* rounding (the editions that have the table)
C11_ScenarioEcho ==
  variant \in PlanVariants =>
    /\ \A i \in 1..Len(marginScenarios) :
         /\ marginScenarios[i].price = inputs.sellingPrice
         /\ 100 * marginScenarios[i].profit - 50
              <= inputs.sellingPrice * marginScenarios[i].margin
         /\ inputs.sellingPrice * marginScenarios[i].margin
              < 100 * marginScenarios[i].profit + 50
    /\ inputs.sellingPrice > 0 =>
         /\ results.profitPerUnit = statedProfitPerUnit(inputs)
         /\ results.profitPerUnit > 0 =>
              /\ results.breakevenRoas.num = 1000 * inputs.sellingPrice
              /\ results.breakevenRoas.den = results.profitPerUnit

\* a price of 3 cents: half of it rounds up to 2 cents in the 50% row, and the
\* profit per unit is not a whole number of cents
C11_Witness ==
  /\ variant \in PlanVariants
  /\ inputs.sellingPrice = 3
  /\ marginScenarios[6].price = 3
  /\ marginScenarios[6].profit = 2
  /\ results.profitPerUnit % 1000 # 0

statedPlanFees(plan) ==
  CASE plan = "basic"    -> [percent |-> 29, cents |-> 30]
    [] plan = "shopify"  -> [percent |-> 26, cents |-> 30]
    [] plan = "advanced" -> [percent |-> 24, cents |-> 30]

\* C13: handlePlanChange(p) for p basic, shopify or advanced makes p the active
\* plan, sets feesPercent and feesCents to 2.9/30, 2.6/30 or 2.4/30, whatever
\* they were, and leaves every other input field unchanged
C13_PlanChange ==
  [][\A p \in {"basic", "shopify", "advanced"} :
       handlePlanChange(p) =>
         /\ shopifyPlan' = p
         /\ inputs'.feesPercent = statedPlanFees(p).percent
         /\ inputs'.feesCents = statedPlanFees(p).cents
         /\ \A k \in DOMAIN inputs \ {"feesPercent", "feesCents"} :
              inputs'[k] = inputs[k]]_vars

\* the advanced plan with its table rates, on a form whose other fields were edited
C13_Witness ==
  /\ shopifyPlan = "advanced"
  /\ inputs.feesPercent = 24
  /\ inputs.feesCents = 30
  /\ inputs.sellingPrice = 1000
  /\ inputs.cogs = 2000
  /\ inputs.adSpend = 5000

\* C14: updateInput(key, v) with key feesPercent or feesCents leaves the plan
\* custom, also when v is the value the field already had; with any other key it
\* leaves the plan unchanged
C14_FeeEditMakesCustom ==
  [][\A key \in DOMAIN inputs : \A v \in InputValues(key) :
       updateInput(key, v) =>
         IF key \in {"feesPercent", "feesCents"}
           THEN shopifyPlan' = "custom"
           ELSE shopifyPlan' = shopifyPlan]_vars

\* the plan is custom while both fee fields hold the basic tier's rates
C14_Witness ==
  /\ shopifyPlan = "custom"
  /\ inputs.feesPercent = 29
  /\ inputs.feesCents = 30
  /\ inputs.sellingPrice = 1000

\* profitPerOrder of a tier as the specification states it, in 1/1000 cent
statedProfitPerOrder(tier, in) ==
  1000 * tier.price - 1000 * tier.cogsPerUnit * tier.quantity
    - tier.price * in.feesPercent - tier.price * in.otherCostsPercent

\* C15: in bundle mode every tier's entry has totalCogs = cogsPerUnit * quantity
\* and profitPerOrder = price - totalCogs - price * feesPercent / 100
\* - price * otherCostsPercent / 100; when profitPerOrder > 0, breakevenRoas is
\* price / profitPerOrder and breakevenOrders the least n with n * profitPerOrder
\* >= adSpend; when profitPerOrder <= 0 both are 0
C15_TierEconomics ==
  \A i \in 1..Len(bundleResults) :
    LET tier == bundleTiers[i]
        row == bundleResults[i]
        profit == statedProfitPerOrder(tier, inputs)
    IN /\ row.totalCogs = tier.cogsPerUnit * tier.quantity
       /\ row.profitPerOrder = profit
       /\ IF profit > 0
            THEN /\ row.breakevenRoas = Ratio(1000 * tier.price, profit)
                 /\ LeastCover(row.breakevenOrders, profit, 1000 * inputs.adSpend)
            ELSE /\ row.breakevenRoas = Zero
                 /\ row.breakevenOrders = 0

\* one tier of several units that needs more than one order to pay the ad spend
\* back, next to a tier that loses money
C15_Witness ==
  /\ bundleMode
  /\ \E i \in 1..Len(bundleResults) : \E j \in 1..Len(bundleResults) :
       /\ bundleResults[i].quantity > 1
       /\ bundleResults[i].profitPerOrder > 0
       /\ bundleResults[i].breakevenOrders > 1
       /\ bundleResults[j].profitPerOrder <= 0
       /\ bundleResults[j].totalCogs > 0
       /\ bundleResults[j].breakevenOrders = 0

\* C16: bundleResults is a per-tier map: in bundle mode it has the length and
\* the order of bundleTiers, and across any step a tier that is still in the list
\* with the same values, under the same adSpend, feesPercent and
\* otherCostsPercent, has the same entry, whatever was edited, added or removed
C16_PerTierMap ==
  [][/\ bundleMode' =>
          /\ Len(bundleResults') = Len(bundleTiers')
          /\ \A i \in 1..Len(bundleTiers') :
               /\ bundleResults'[i].quantity = bundleTiers'[i].quantity
               /\ bundleResults'[i].price = bundleTiers'[i].price
     /\ (/\ bundleMode /\ bundleMode'
         /\ inputs'.adSpend = inputs.adSpend
         /\ inputs'.feesPercent = inputs.feesPercent
         /\ inputs'.otherCostsPercent = inputs.otherCostsPercent) =>
          \A i \in 1..Len(bundleTiers) : \A k \in 1..Len(bundleTiers') :
            bundleTiers'[k] = bundleTiers[i] => bundleResults'[k] = bundleResults[i]]_vars

\* three tiers, the first with edited cost, the second still at 2 x $18
C16_Witness ==
  /\ bundleMode
  /\ Len(bundleTiers) = 3
  /\ Len(bundleResults) = 3
  /\ bundleTiers[1].cogsPerUnit = 4000
  /\ bundleTiers[2].cogsPerUnit = 1800
  /\ bundleResults[2].totalCogs = 3600
  /\ bundleResults[3].quantity = 3

\* a configuration of the refund edition without its refundPercent field
withoutRefund(in) == [k \in DOMAIN in \ {"refundPercent"} |-> in[k]]

\* C17: the refund edition with refundPercent = 0 reports the result the base
\* edition computes from the remaining fields; with refundPercent > 0 and
\* sellingPrice > 0 its profitPerUnit is lower by exactly
\* sellingPrice * refundPercent / 100
C17_RefundEquivalence ==
  variant = "refund" =>
    /\ inputs.refundPercent = 0 => results = ResultsBase(withoutRefund(inputs))
    /\ (inputs.refundPercent > 0 /\ inputs.sellingPrice > 0) =>
         results.profitPerUnit
           = ResultsBase(withoutRefund(inputs)).profitPerUnit
               - inputs.sellingPrice * inputs.refundPercent

\* $50 at 5% refunds: 38.25 - 2.50 = 35.75 per unit
C17_Witness ==
  /\ variant = "refund"
  /\ inputs.refundPercent = 50
  /\ inputs.sellingPrice = 5000
  /\ ResultsBase(withoutRefund(inputs)).profitPerUnit = 3825000
  /\ results.profitPerUnit = 3575000

\* C18: in every state reached by field edits, plan changes, presets, bundle
\* tier edits (and waitlist events) the rendered results, marginScenarios and
\* bundleResults are the edition's computations applied to the current inputs,
\* bundle mode and tiers
C18_NoStaleOutput ==
  /\ results = resultsMemo(variant, inputs)
  /\ marginScenarios = marginScenariosMemo(variant, inputs)
  /\ bundleResults = bundleResultsMemo(bundleMode, bundleTiers, inputs)

\* the bundle edition after a field edit, a preset, an added tier and a tier edit
C18_Witness ==
  /\ variant = "bundle"
  /\ inputs.adSpend = 0
  /\ activePreset = {2}
  /\ bundleMode
  /\ Len(bundleTiers) = 3
  /\ bundleTiers[3].cogsPerUnit = 4000
  /\ bundleResults[3].totalCogs = 12000
  /\ results.profitPerUnit = 5999000 - 1500000 - 5999 * 29 - 5999 * 40

C20_WaitlistTransitions ==
  [][/\ (waitlistStatus # "loading" /\ waitlistStatus' = "loading") =>
          /\ waitlistStatus \in {"idle", "error"}
          /\ EMAIL_REGEX(email)
          /\ email' = email
          /\ inFlight' = Append(inFlight, email)
     /\ (waitlistStatus = "loading" /\ waitlistStatus' # "loading") =>
          \E index \in 1..Len(inFlight) : \E outcome \in FetchOutcomes :
            handleWaitlistResumes(index, outcome)
     /\ \A index \in 1..Len(inFlight) : \A outcome \in FetchOutcomes :
          handleWaitlistResumes(index, outcome) =>
            /\ waitlistStatus = "loading"
            /\ waitlistStatus' = "success" <=> outcome = "ok"
            /\ waitlistStatus' = "error" <=> outcome \in {"notOk", "thrown"}
            /\ email' = IF outcome = "ok" THEN <<>> ELSE email]_vars

\* after a failed request the valid email is still in the field and the button
\* submits it again
C20_Witness ==
  /\ waitlistStatus = "error"
  /\ inFlight = <<>>
  /\ email = <<"a", "@", "b", ".", "c">>
  /\ ENABLED ClickJoin

\* C21: the waitlist and the calculator are independent: no step of
\* handleWaitlist (its start, its end in success or in error) changes the inputs
\* or the fee plan, a step that changes the waitlist state leaves the three
\* computed outputs as they were, and in every waitlist status, a request in
\* flight or not, an edit is followed by the outputs of the edited inputs
C21_WaitlistIndependent ==
  [][/\ (handleWaitlist \/ \E index \in 1..Len(inFlight) : \E outcome \in FetchOutcomes :
                            handleWaitlistResumes(index, outcome)) =>
          /\ inputs' = inputs
          /\ shopifyPlan' = shopifyPlan
     /\ (waitlistStatus' # waitlistStatus \/ inFlight' # inFlight \/ email' # email) =>
          /\ results' = results
          /\ marginScenarios' = marginScenarios
          /\ bundleResults' = bundleResults
     /\ inputs' # inputs =>
          /\ results' = resultsMemo(variant, inputs')
          /\ UNCHANGED waitlistVars]_vars

\* a request is in flight on a form whose price and plan were edited, the
\* result is the one of the edited inputs and the fields can still be edited
C21_Witness ==
  /\ waitlistStatus = "loading"
  /\ inFlight # <<>>
  /\ inputs.sellingPrice = 1000
  /\ inputs.cogs = 1000
  /\ shopifyPlan = "shopify"
  /\ results.profitPerUnit = -56000
  /\ ENABLED TouchField

\* C22: whenever the active plan is basic, shopify or advanced, feesPercent and
\* feesCents are that tier's table entry (2.9/30, 2.6/30, 2.4/30), in every
\* state reached from plan basic with 2.9% + 30 cents by updateInput and
\* handlePlanChange
C22_PlanFeesConsistent ==
  shopifyPlan \in {"basic", "shopify", "advanced"} =>
    /\ inputs.feesPercent = statedPlanFees(shopifyPlan).percent
    /\ inputs.feesCents = statedPlanFees(shopifyPlan).cents

\* back on a named tier after the fees were edited by hand
C22_Witness ==
  /\ shopifyPlan = "advanced"
  /\ inputs.feesPercent = 24
  /\ inputs.feesCents = 30
  /\ inputs.taxPercent = 100
  /\ inputs.sellingPrice = 3

\* C23: handlePlanChange(custom) changes the active plan and nothing else:
\* feesPercent and feesCents keep their values (they do not become the table's
\* 0 and 0) and every other input field is unchanged
C23_CustomKeepsFees ==
  [][handlePlanChange("custom") =>
       /\ shopifyPlan' = "custom"
       /\ inputs'.feesPercent = inputs.feesPercent
       /\ inputs'.feesCents = inputs.feesCents
       /\ inputs' = inputs]_vars

\* the plan is custom and the fees are still the advanced tier's 2.4% + 30 cents
C23_Witness ==
  /\ shopifyPlan = "custom"
  /\ inputs.feesPercent = 24
  /\ inputs.feesCents = 30
  /\ inputs.sellingPrice = 1000

\* C24: the margin scenarios depend on sellingPrice and adSpend only: a change
\* of the configuration that keeps these two leaves the scenario list as it
\* was, whatever happens to cogs, the fees, tax, refunds, other costs, fixed
\* fees per unit and overhead (step by step this relates any two configurations
\* that agree on the two fields)
C24_ScenariosOnlyPriceAndAdSpend ==
  [][(/\ inputs'.sellingPrice = inputs.sellingPrice
      /\ inputs'.adSpend = inputs.adSpend)
       => marginScenarios' = marginScenarios]_vars

\* $50 with $100 ad spend: the 20% row reads ROAS 5.00 and 10 orders although
\* cogs, fees, tax and overhead all differ from the initial configuration
C24_Witness ==
  /\ variant \in PlanVariants
  /\ inputs.sellingPrice = 5000
  /\ inputs.adSpend = 10000
  /\ inputs.cogs = 2000
  /\ inputs.feesPercent = 0
  /\ inputs.feesCents = 0
  /\ inputs.taxPercent = 100
  /\ inputs.otherCostsPercent = 50
  /\ inputs.fixedFeesPerUnit = 1000
  /\ inputs.monthlyOverhead = 2000
  /\ marginScenarios[3].breakevenRoas = Finite(500)
  /\ marginScenarios[3].breakevenOrders = Finite(10)

\* C25: the tier list of the bundle edition always has between 1 and 4
\* entries, also when addBundleTier or removeBundleTier runs twice from one
\* render
C25_TierCount ==
  variant = "bundle" => Len(bundleTiers) \in 1..4

\* C26: in every reachable state, the initial one included, an active preset i
\* goes with the sellingPrice, cogs, feesPercent and otherCostsPercent of
\* PRESETS[i]; applyPreset leaves adSpend, fixedFeesPerUnit, monthlyOverhead and
\* unitsSold unchanged; every updateInput call resets activePreset to null
C26_PresetConsistent ==
  /\ [](\A i \in DOMAIN PRESETS :
          activePreset = {i} =>
            \A k \in {"sellingPrice", "cogs", "feesPercent", "otherCostsPercent"} :
              inputs[k] = PRESETS[i][k])
  /\ [][/\ \A i \in DOMAIN PRESETS :
            applyPreset(i) =>
              \A k \in {"adSpend", "fixedFeesPerUnit", "monthlyOverhead", "unitsSold"} :
                inputs'[k] = inputs[k]
        /\ \A key \in DOMAIN inputs : \A value \in InputValues(key) :
            updateInputBundle(key, value) => activePreset' = {}]_vars

\* C27: at most one waitlist request is in flight: a request starts only from
\* status idle or error with none pending, so none starts while the status is
\* loading or success, whichever button is used, and the status never leaves
\* success
C27_OneRequestInFlight ==
  [][/\ Len(inFlight') <= 1
     /\ Len(inFlight') > Len(inFlight) =>
          /\ waitlistStatus \in {"idle", "error"}
          /\ inFlight = <<>>
     /\ waitlistStatus = "success" =>
          /\ waitlistStatus' = "success"
          /\ inFlight' = <<>>]_vars

\* the refund edition with a request pending and a valid email in the field:
\* none of its three buttons submits
C27_Witness ==
  /\ variant = "refund"
  /\ waitlistStatus = "loading"
  /\ Len(inFlight) = 1
  /\ isValidEmail
  /\ ~ENABLED ClickJoin

\* C28: every submission that enters loading leaves it, ending in success or
\* error, once its request has resolved or rejected; the status is never
\* loading with no request pending
C28_LoadingEnds ==
  /\ (waitlistStatus = "loading") ~> (waitlistStatus \in {"success", "error"})
  /\ [](waitlistStatus = "loading" => inFlight # <<>>)

\* a submission went through loading and ended in success, which cleared the
\* field
C28_Witness ==
  /\ variant = "refund"
  /\ waitlistStatus = "success"
  /\ inFlight = <<>>
  /\ email = <<>>

\* the texts the claim lists: empty, no "@", no dot after the "@", whitespace
statedInvalid(e) ==
  \/ e = <<>>
  \/ \A i \in 1..Len(e) : e[i] # "@"
  \/ \A i \in 1..Len(e) : \A j \in 1..Len(e) : (e[i] = "@" /\ j > i) => e[j] # "."
  \/ \E i \in 1..Len(e) : e[i] \in Whitespace

\* C29: an email that is empty, has no "@", has no dot after the "@" or holds
\* whitespace does not match EMAIL_REGEX, and handleWaitlist called while the
\* email does not match sends no request and leaves status and email unchanged
C29_InvalidEmailNoRequest ==
  /\ [](statedInvalid(email) => ~isValidEmail)
  /\ [][/\ (~EMAIL_REGEX(email) /\ handleWaitlist) => UNCHANGED waitlistVars
        /\ statedInvalid(email) =>
             /\ Len(inFlight') <= Len(inFlight)
             /\ (waitlistStatus' = "loading" => waitlistStatus = "loading")]_vars

\* an email with no dot after the "@" is in the field, nothing is pending and
\* the handler can be entered
C29_Witness ==
  /\ email = <<"a", "@", "b">>
  /\ waitlistStatus = "idle"
  /\ inFlight = <<>>
  /\ ~isValidEmail
  /\ ENABLED CallHandleWaitlist

\* the requests the claim lists: email missing, empty, or without an "@"
statedRejected(body) ==
  \/ body.kind = "noEmail"
  \/ body.kind = "text" /\ body.email = <<>>
  \/ body.kind = "text" /\ \A i \in 1..Len(body.email) : body.email[i] # "@"

\* C30: a request whose email is missing, empty or without "@" is answered 400
\* and writes no row, so no such row is ever stored; success is answered only
\* for an email the completed insert has left in the table; a failure thrown
\* by the body parse or by the database is answered 500
C30_WaitlistRoute ==
  /\ [](\A e \in apex_waitlist : e # <<>> /\ \E i \in 1..Len(e) : e[i] = "@")
  /\ [][/\ \A body \in Bodies : (POST(body) /\ statedRejected(body)) =>
              /\ response'.status = 400
              /\ UNCHANGED <<apex_waitlist, awaitingSql>>
        /\ \A body \in Bodies : (POST(body) /\ body.kind = "unparseable") =>
              /\ response'.status = 500
              /\ UNCHANGED <<apex_waitlist, awaitingSql>>
        /\ \A index \in 1..Len(awaitingSql) :
              (POSTResumes(index, "failed") \/ POSTResumes(index, "lost")) =>
                response'.status = 500
        /\ (response' # response /\ response'.status = 200) =>
              /\ response'.email \in apex_waitlist'
              /\ \E index \in 1..Len(awaitingSql) : POSTResumes(index, "done")]_vars

\* one email was stored and answered with success, then a request without "@"
\* was refused while another insert is still awaited
C30_Witness ==
  /\ apex_waitlist = {<<"a", "@", "b", ".", "c">>}
  /\ response = [status |-> 400, email |-> <<"a", "b">>]
  /\ awaitingSql = << <<"a", "@", "b">> >>

====
